---- MODULE Spec2Model ----
(***************************************************************************)
(* Incremental ingestion coordinator of bbb-scoreboard:                    *)
(*   src/src/refresh.py          FileLock, refresh_playoff_games           *)
(*   src/src/pbp/refresh_pbp.py  refresh_pbp                               *)
(*   src/src/pbp/upsert.py       upsert_latest_wins                        *)
(*   src/src/pbp/live_pbp.py     fetch_live_pbp_for_game_ids (its results) *)
(* Time is an integer clock; timestamps written by the code are readings   *)
(* of that clock.  A missing value (None / NaN) is Null.                   *)
(***************************************************************************)
EXTENDS Integers, Sequences, FiniteSets, TLC

\* ------------------------------------------------------------------ bounds
MaxTime == 2          \* the clock runs 0..MaxTime
MaxStreak == 3        \* no call starts once a no_new_pbp_streak has reached it

\* ------------------------------------------------------- program constants
StaleSeconds == 1     \* FileLock.stale_seconds, in clock ticks
InactiveSeconds == 2  \* inactive_seconds, in clock ticks

Null == 0 - 1
AllProcs == {"p1", "p2"}
Games == {"g1", "g2"}
GameOrder == <<"g1", "g2">>
PlayIds == {1, 2}
Descs == {"a", "b"}

\* the string order of game ids, as sort_values compares them
GameRank(g) == CHOOSE i \in 1..Len(GameOrder) : GameOrder[i] = g

\* ------------------------------------------------ upsert (pure functions)
\* A ScoringPlayRecord: key (game_id, play_id), stamp refreshed_at, and two
\* independent attribute columns is_td and desc.
Rows == [game_id : Games, play_id : PlayIds, refreshed_at : 0..MaxTime,
         is_td : BOOLEAN, desc : Descs]

SameKey(a, b) == a.game_id = b.game_id /\ a.play_id = b.play_id

\* strict order of sort_values(["game_id", "play_id", "refreshed_at"])
SortLess(a, b) ==
    \/ GameRank(a.game_id) < GameRank(b.game_id)
    \/ /\ a.game_id = b.game_id
       /\ \/ a.play_id < b.play_id
          \/ a.play_id = b.play_id /\ a.refreshed_at < b.refreshed_at

\* stable insertion: r goes after every element that does not sort after it
RECURSIVE InsertStable(_, _)
InsertStable(r, s) ==
    IF s = <<>> THEN <<r>>
    ELSE IF SortLess(r, s[Len(s)]) THEN Append(InsertStable(r, SubSeq(s, 1, Len(s) - 1)), s[Len(s)])
    ELSE Append(s, r)

\* sort_values(..., kind="mergesort"): a stable sort
RECURSIVE SortValues(_)
SortValues(s) ==
    IF s = <<>> THEN <<>>
    ELSE InsertStable(s[Len(s)], SortValues(SubSeq(s, 1, Len(s) - 1)))

RECURSIVE SelectIdx(_, _, _)
SelectIdx(s, keep, i) ==
    IF i > Len(s) THEN <<>>
    ELSE IF i \in keep THEN <<s[i]>> \o SelectIdx(s, keep, i + 1)
    ELSE SelectIdx(s, keep, i + 1)

\* drop_duplicates(subset=["game_id", "play_id"], keep="last")
DropDuplicatesLast(s) ==
    SelectIdx(s, {i \in 1..Len(s) : ~\E j \in (i + 1)..Len(s) : SameKey(s[i], s[j])}, 1)

\* upsert_latest_wins(old, new_scoring); old = <<>> stands for None or empty
UpsertLatestWins(old, new) ==
    IF old = <<>> THEN new
    ELSE DropDuplicatesLast(SortValues(old \o new))

RowSet(s) == {s[i] : i \in 1..Len(s)}
KeySet(s) == {<<s[i].game_id, s[i].play_id>> : i \in 1..Len(s)}
UniqueKeys(s) == \A i, j \in 1..Len(s) : SameKey(s[i], s[j]) => i = j

\* ------------------------------------------------------- refresh state
\* One row of refresh_state.csv (the columns the freeze policy reads or
\* writes); exists = FALSE stands for "no row for this game_id".
NoRow ==
    [exists |-> FALSE, first_seen_at |-> Null, last_max_play_id |-> Null,
     last_new_pbp_at |-> Null, no_new_pbp_streak |-> 0, is_frozen |-> FALSE,
     freeze_reason |-> ""]

\* _read_state on a missing file: no rows
EmptyState == [g \in Games |-> NoRow]

StateEmpty(sd) == \A g \in Games : ~sd[g].exists

\* a variant of the selection that keeps every requested id
SelectAll(ids, sd) == ids

\* _select_games_to_refresh: requested ids whose row is not frozen, in order
SelectGamesToRefresh(ids, sd) ==
    IF StateEmpty(sd) THEN ids
    ELSE SelectSeq(ids, LAMBDA g : ~(sd[g].exists /\ sd[g].is_frozen))

\* a variant of the elapsed-time test that always passes
ShouldFreezeAlways(last_new_pbp_at, clk) == TRUE

\* _should_freeze_inactive, evaluated at clock reading clk
ShouldFreezeInactive(last_new_pbp_at, clk) ==
    IF last_new_pbp_at = Null THEN FALSE
    ELSE (clk - last_new_pbp_at) >= InactiveSeconds

\* LiveGameMetrics records fetch_live_pbp_for_game_ids builds for one id:
\* not mappable / exception (error), no feed yet (not_loaded_yet), success.
FetchOutcomes(g) ==
    {[game_id |-> g, status |-> "error", pbp_rows |-> 0, max_play_id |-> Null, is_final |-> FALSE],
     [game_id |-> g, status |-> "not_loaded_yet", pbp_rows |-> 0, max_play_id |-> Null, is_final |-> FALSE]}
    \cup {[game_id |-> g, status |-> "ok", pbp_rows |-> 0, max_play_id |-> Null, is_final |-> f] :
            f \in BOOLEAN}
    \cup {[game_id |-> g, status |-> "ok", pbp_rows |-> 1, max_play_id |-> m, is_final |-> f] :
            m \in PlayIds, f \in BOOLEAN}

\* an outcome without its game_id
Kind(m) == [status |-> m.status, pbp_rows |-> m.pbp_rows, max_play_id |-> m.max_play_id,
            is_final |-> m.is_final]

OutcomeKinds == {Kind(m) : m \in FetchOutcomes("g1")}

\* a variant of the loop body in which a failed id leaves no record
FetchOneDropsError(metrics, gid, out) ==
    IF out.status = "error" THEN metrics
    ELSE Append(metrics, [game_id |-> gid, status |-> out.status, pbp_rows |-> out.pbp_rows,
                          max_play_id |-> out.max_play_id, is_final |-> out.is_final])

\* live_pbp.py 303-379, the loop body for one id whose outcome is out: each
\* of the four branches (not mappable, no feed yet, success, except) appends
\* one LiveGameMetrics record and goes on to the next id
FetchOne(metrics, gid, out) ==
    Append(metrics, [game_id |-> gid, status |-> out.status, pbp_rows |-> out.pbp_rows,
                     max_play_id |-> out.max_play_id, is_final |-> out.is_final])

\* live_pbp.py 301-382: the loop over game_ids, outs[i] the outcome of ids[i]
RECURSIVE FetchLiveLoop(_, _, _, _)
FetchLiveLoop(ids, outs, i, metrics) ==
    IF i > Len(ids) THEN metrics
    ELSE FetchLiveLoop(ids, outs, i + 1, FetchOne(metrics, ids[i], outs[i]))

\* the metrics lists the fetcher can return for the id list ids, over every
\* combination of per-id outcomes; kinds are the outcomes the feed can produce
MetricsFor(ids, kinds) ==
    {FetchLiveLoop(ids, outs, 1, <<>>) : outs \in [1..Len(ids) -> kinds]}

\* refresh.py 253: any live play-by-play loaded
AnyLoaded(ms) == \E i \in 1..Len(ms) : ms[i].pbp_rows > 0

\* a variant of "changed" inferred from the rows fetched
AdvancedByRows(sd, ms) == \E i \in 1..Len(ms) : ms[i].pbp_rows > 0

\* refresh.py 296-309: "changed" by play-by-play advance against the baseline
AdvancedAny(sd, ms) ==
    \E i \in 1..Len(ms) :
        /\ ms[i].max_play_id # Null
        /\ \/ sd[ms[i].game_id].last_max_play_id = Null
           \/ ms[i].max_play_id > sd[ms[i].game_id].last_max_play_id

\* refresh.py 332-345: the row appended for a game_id without one
NewRow(m, tnow) ==
    [exists |-> TRUE, first_seen_at |-> tnow, last_max_play_id |-> m.max_play_id,
     last_new_pbp_at |-> IF m.max_play_id # Null THEN tnow ELSE Null,
     no_new_pbp_streak |-> 0, is_frozen |-> FALSE, freeze_reason |-> ""]

\* a variant without the not_loaded_yet exemption
CountedAlways(r, m, tnow) ==
    IF m.max_play_id # Null /\ (r.last_max_play_id = Null \/ m.max_play_id > r.last_max_play_id)
    THEN [r EXCEPT !.last_max_play_id = m.max_play_id, !.last_new_pbp_at = tnow,
                   !.no_new_pbp_streak = 0]
    ELSE [r EXCEPT !.no_new_pbp_streak = r.no_new_pbp_streak + 1]

\* a variant that stores whatever the fetch reported
CountedStoresFetched(r, m, tnow) ==
    IF m.max_play_id # Null /\ (r.last_max_play_id = Null \/ m.max_play_id > r.last_max_play_id)
    THEN [r EXCEPT !.last_max_play_id = m.max_play_id, !.last_new_pbp_at = tnow,
                   !.no_new_pbp_streak = 0]
    ELSE IF m.status = "not_loaded_yet" THEN [r EXCEPT !.last_max_play_id = m.max_play_id]
    ELSE [r EXCEPT !.last_max_play_id = m.max_play_id,
                   !.no_new_pbp_streak = r.no_new_pbp_streak + 1]

\* refresh.py 356-371: advance detection and streak update on row r
Counted(r, m, tnow) ==
    IF m.max_play_id # Null /\ (r.last_max_play_id = Null \/ m.max_play_id > r.last_max_play_id)
    THEN [r EXCEPT !.last_max_play_id = m.max_play_id, !.last_new_pbp_at = tnow,
                   !.no_new_pbp_streak = 0]
    ELSE IF m.status = "not_loaded_yet" THEN r
    ELSE [r EXCEPT !.no_new_pbp_streak = r.no_new_pbp_streak + 1]

\* a variant of the freeze logic that does not look at is_final
FrozenIgnoresFinal(r, m, clk) ==
    IF r.is_frozen THEN r
    ELSE IF r.no_new_pbp_streak >= 2 /\ ShouldFreezeInactive(r.last_new_pbp_at, clk)
    THEN [r EXCEPT !.is_frozen = TRUE, !.freeze_reason = "inactive_timeout"]
    ELSE r

\* a variant of the freeze logic that gives up on a game whose fetch failed
FrozenOnError(r, m, clk) ==
    IF r.is_frozen THEN r
    ELSE IF m.is_final \/ m.status = "error"
    THEN [r EXCEPT !.is_frozen = TRUE, !.freeze_reason = "final"]
    ELSE IF r.no_new_pbp_streak >= 2 /\ ShouldFreezeInactive(r.last_new_pbp_at, clk)
    THEN [r EXCEPT !.is_frozen = TRUE, !.freeze_reason = "inactive_timeout"]
    ELSE r

\* refresh.py 376-391: freeze logic on the counted row r
Frozen(r, m, clk) ==
    IF r.is_frozen THEN r
    ELSE IF m.is_final THEN [r EXCEPT !.is_frozen = TRUE, !.freeze_reason = "final"]
    ELSE IF r.no_new_pbp_streak >= 2 /\ ShouldFreezeInactive(r.last_new_pbp_at, clk)
    THEN [r EXCEPT !.is_frozen = TRUE, !.freeze_reason = "inactive_timeout"]
    ELSE r

\* a variant of the loop body in which a freeze earlier in the loop makes the
\* rows after it count as final
ApplyMetricSticky(acc, m, tnow, clk) ==
    LET g == m.game_id
        r0 == IF acc.sd[g].exists THEN acc.sd[g] ELSE NewRow(m, tnow)
        fin == [m EXCEPT !.is_final = m.is_final \/ acc.frozen_now > 0]
        r2 == Frozen(Counted(r0, m, tnow), fin, clk)
    IN  IF m.status = "not_loaded_yet"
        THEN [acc EXCEPT !.sd[g] = IF acc.sd[g].exists THEN Counted(r0, m, tnow) ELSE r0]
        ELSE [sd |-> [acc.sd EXCEPT ![g] = r2],
              frozen_now |-> acc.frozen_now + (IF r2.is_frozen /\ ~r0.is_frozen THEN 1 ELSE 0)]

\* refresh.py 322-391: the loop body for one metrics row
ApplyMetric(acc, m, tnow, clk) ==
    LET g == m.game_id
        r0 == IF acc.sd[g].exists THEN acc.sd[g] ELSE NewRow(m, tnow)
        r2 == Frozen(Counted(r0, m, tnow), m, clk)
    IN  IF m.status = "not_loaded_yet"
        THEN [acc EXCEPT !.sd[g] = IF acc.sd[g].exists THEN Counted(r0, m, tnow) ELSE r0]
        ELSE [sd |-> [acc.sd EXCEPT ![g] = r2],
              frozen_now |-> acc.frozen_now + (IF r2.is_frozen /\ ~r0.is_frozen THEN 1 ELSE 0)]

RECURSIVE ApplyMetrics(_, _, _, _, _)
ApplyMetrics(acc, ms, i, tnow, clk) ==
    IF i > Len(ms) THEN acc
    ELSE ApplyMetrics(ApplyMetric(acc, ms[i], tnow, clk), ms, i + 1, tnow, clk)

\* a variant that rebuilds the state file from the fetched games alone
UpdateFromScratch(sd, ms, tnow, clk) ==
    ApplyMetrics([sd |-> EmptyState, frozen_now |-> 0], ms, 1, tnow, clk)

\* the state_df written at refresh.py 393 and games_frozen_now
UpdateState(sd, ms, tnow, clk) ==
    ApplyMetrics([sd |-> sd, frozen_now |-> 0], ms, 1, tnow, clk)

\* ------------------------------------------------------- derivation
\* A raw play-by-play row as refresh_pbp loads it: key, touchdown indicator
\* and a free-text attribute.
RawRows == [game_id : Games, play_id : PlayIds, touchdown : {0, 1}, desc : {"a"}]

\* the raw frames fetch_pbp_for_game_ids_via_nflreadpy can return for ids:
\* rows of the release (rows) filtered to the requested ids
RawBatches(ids, rows, lens) ==
    UNION {[1..n -> {r \in rows : \E i \in 1..Len(ids) : ids[i] = r.game_id}] : n \in lens}

\* derive_scoring_plays: keep the scoring rows, stamp refreshed_at
DeriveScoringPlays(pbp, refreshed_at) ==
    LET sc == SelectSeq(pbp, LAMBDA r : r.touchdown = 1)
    IN  [i \in 1..Len(sc) |->
            [game_id |-> sc[i].game_id, play_id |-> sc[i].play_id,
             refreshed_at |-> refreshed_at, is_td |-> TRUE, desc |-> sc[i].desc]]

\* ------------------------------------------------------------ the files
NoMarker == [owner |-> "none", mtime |-> Null]

\* scoring_plays.csv: absent, blank (no header: an empty frame was written,
\* or a write is under way) or a table of rows
CumAbsent == [st |-> "absent", rows |-> <<>>]
CumBlank == [st |-> "blank", rows |-> <<>>]
CumTable(rows) == IF rows = <<>> THEN CumBlank ELSE [st |-> "rows", rows |-> rows]

\* a variant that writes the derived batch over the table
CombinedOverwrite(old, scoring) == scoring

\* refresh_pbp 107-110: the frame written to out_path
Combined(old, scoring) ==
    IF old = <<>> THEN scoring
    ELSE IF scoring # <<>> THEN UpsertLatestWins(old, scoring) ELSE old

\* ------------------------------------------------- the aggregation engine
\* engine.py 13
POSITION_BUCKETS == <<"QB", "RB", "WR", "TE", "K", "OTH">>

\* the categories in the order sort_values(["team", "position"]) leaves them
PositionSorted == <<"K", "OTH", "QB", "RB", "TE", "WR">>

\* engine.py 16-28
ScoreRules ==
    [passing_td |-> 4, rushing_td |-> 6, receiving_td |-> 6, fg_made |-> 3, xp_made |-> 1,
     passing_2pt |-> 1, rushing_2pt |-> 2, receiving_2pt |-> 2, safety |-> 2,
     def_2pt_return |-> 2, def_td |-> 6]

\* team abbreviations, in sorted order; "" is a missing posteam / defteam
\* after fillna("")
TeamOrder == <<"KC", "SF">>

\* io.py 12-22; "" stands for a falsy value, "nan" for str(NaN)
NormalizePosition(pos) ==
    IF pos = "" THEN "OTH"
    ELSE IF pos = "FB" THEN "RB"
    ELSE IF pos \in {"QB", "RB", "WR", "TE"} THEN pos
    ELSE IF pos = "K" THEN "K"
    ELSE "OTH"

\* scoring_plays.py 53-74: the flags derive_scoring_plays stores for a play
\* from the raw indicators of the play-by-play row
ScoringFlags(touchdown, pass_td, rush_td, fg, xp, two_pt, def_two_pt, safety) ==
    [is_fg |-> fg, is_xp |-> xp, is_2pt |-> two_pt, is_def_two_pt |-> def_two_pt,
     is_safety |-> safety, pass_touchdown |-> pass_td, rush_touchdown |-> rush_td,
     is_td_off |-> touchdown /\ (pass_td \/ rush_td),
     is_td_def |-> touchdown /\ ~(pass_td \/ rush_td),
     is_scoring_play |-> touchdown \/ fg \/ xp \/ two_pt \/ safety \/ def_two_pt]

\* utils.py 28-35: as_int; a value that is missing or does not parse is <NA>
AsInt(x) == IF x = "1" THEN 1 ELSE IF x = "0" THEN 0 ELSE Null

\* scoring_plays.py 39-66: the canonical flags of a raw play-by-play row; a
\* missing or unparsable indicator compares unequal and counts as false
CanonicalFlags(r) ==
    ScoringFlags(AsInt(r.touchdown) = 1, r.pass_touchdown, r.rush_touchdown,
                 r.field_goal_result = "made", r.extra_point_result \in {"good", "made"},
                 r.two_point_conv_result \in {"success", "good"},
                 AsInt(r.defensive_two_point_conv) = 1, AsInt(r.safety) = 1)

\* a variant of the filter that forgets the defensive two-point return
IsScoringPlayOffenseOnly(r) ==
    LET f == CanonicalFlags(r)
    IN  f.is_td_off \/ f.is_td_def \/ f.is_fg \/ f.is_xp \/ f.is_2pt \/ f.is_safety

\* scoring_plays.py 67-74, 112
IsScoringPlay(r) == CanonicalFlags(r).is_scoring_play

\* scoring_plays.py 138-185: the record stored for a scoring row
DerivedRecord(r, refreshed_at) ==
    LET f == CanonicalFlags(r)
    IN  [game_id |-> r.game_id, play_id |-> r.play_id, refreshed_at |-> refreshed_at,
         is_td |-> f.is_td_off \/ f.is_td_def, is_fg |-> f.is_fg, is_xp |-> f.is_xp,
         is_2pt |-> f.is_2pt, is_safety |-> f.is_safety, is_def_two_pt |-> f.is_def_two_pt,
         is_td_off |-> f.is_td_off, is_td_def |-> f.is_td_def,
         pass_touchdown |-> f.pass_touchdown, rush_touchdown |-> f.rush_touchdown]

\* scoring_plays.py 19-187 with its cfg: refreshed_at is cfg.refreshed_at, or
\* the wall clock (reading clk) when the cfg has none (line 36)
DeriveWithConfig(pbp, cfg_refreshed_at, clk) ==
    LET refreshed_at == IF cfg_refreshed_at = Null THEN clk ELSE cfg_refreshed_at
        sc == SelectSeq(pbp, IsScoringPlay)
    IN  [i \in 1..Len(sc) |-> DerivedRecord(sc[i], refreshed_at)]

\* scoring_plays.py 114: only scoring plays are stored
StoredFlags ==
    {fl \in {ScoringFlags(td, ptd, rtd, fg, xp, two, def2, saf) :
                td \in BOOLEAN, ptd \in BOOLEAN, rtd \in BOOLEAN, fg \in BOOLEAN,
                xp \in BOOLEAN, two \in BOOLEAN, def2 \in BOOLEAN, saf \in BOOLEAN} :
        fl.is_scoring_play}

\* scoring_plays.py 138-185: a row of the cumulative table, with the columns
\* the engine reads (ids after clean_id: "" when missing).  The column
\* defensive_two_point_conv is 1 exactly when is_def_two_pt is set
\* (scoring_plays.py 57), so engine.py 97-104 reads the one flag.
StoredPlay(g, n, wk, pos, def, pt, f, pa, re, ru, ki) ==
    [game_id |-> g, play_id |-> n, season |-> 2025, week |-> wk, posteam |-> pos,
     defteam |-> def, play_type |-> pt,
     is_fg |-> f.is_fg, is_xp |-> f.is_xp, is_2pt |-> f.is_2pt,
     is_def_two_pt |-> f.is_def_two_pt, is_safety |-> f.is_safety,
     pass_touchdown |-> f.pass_touchdown, rush_touchdown |-> f.rush_touchdown,
     is_td_off |-> f.is_td_off, is_td_def |-> f.is_td_def,
     passer_player_id |-> pa, receiver_player_id |-> re, rusher_player_id |-> ru,
     kicker_player_id |-> ki]

\* the scope of a query: a season and either an id set or a week ceiling
NoScope == [season |-> 0, by |-> "none", game_ids |-> {}, week_max |-> 0]

\* engine.py 41-59
ApplyScope(scoring_plays, scope) ==
    LET df == SelectSeq(scoring_plays, LAMBDA p : p.season = scope.season)
    IN  IF scope.by = "game_ids" THEN SelectSeq(df, LAMBDA p : p.game_id \in scope.game_ids)
        ELSE IF scope.by = "week_max" THEN SelectSeq(df, LAMBDA p : p.week <= scope.week_max)
        ELSE df

\* one call of add(): the mask, and the columns the event takes
Rule(on, team, player_id, pts, pos_hint, reason) ==
    [on |-> on, team |-> team, player_id |-> player_id, pts |-> pts, pos_hint |-> pos_hint,
     reason |-> reason]

\* engine.py 138-139
KickRules(p) ==
    <<Rule(p.is_fg, p.posteam, p.kicker_player_id, ScoreRules.fg_made, "K", "FG made"),
      Rule(p.is_xp, p.posteam, p.kicker_player_id, ScoreRules.xp_made, "K", "XP made")>>

\* engine.py 142-144; pos_hint None is "none"
OffenseTdRules(p) ==
    <<Rule(p.is_td_off /\ p.pass_touchdown /\ p.passer_player_id # "", p.posteam,
           p.passer_player_id, ScoreRules.passing_td, "QB", "Pass TD (QB)"),
      Rule(p.is_td_off /\ p.pass_touchdown /\ p.receiver_player_id # "", p.posteam,
           p.receiver_player_id, ScoreRules.receiving_td, "none", "Pass TD (receiver)"),
      Rule(p.is_td_off /\ p.rush_touchdown /\ p.rusher_player_id # "", p.posteam,
           p.rusher_player_id, ScoreRules.rushing_td, "none", "Rush TD")>>

\* a variant that credits defensive scores to the possession team
DefensiveRulesToPosteam(p) ==
    <<Rule(p.is_td_def, p.posteam, "", ScoreRules.def_td, "OTH", "Defensive TD"),
      Rule(p.is_safety, p.posteam, "", ScoreRules.safety, "OTH", "Safety"),
      Rule(p.is_def_two_pt, p.posteam, "", ScoreRules.def_2pt_return, "OTH", "Defensive 2pt")>>

\* engine.py 147-149
DefensiveRules(p) ==
    <<Rule(p.is_td_def, p.defteam, "", ScoreRules.def_td, "OTH", "Defensive TD"),
      Rule(p.is_safety, p.defteam, "", ScoreRules.safety, "OTH", "Safety"),
      Rule(p.is_def_two_pt, p.defteam, "", ScoreRules.def_2pt_return, "OTH", "Defensive 2pt")>>

\* engine.py 106, 152-155; the play types here are "pass", "run", "field_goal"
\* and "", for which str.contains is equality
TwoPointRules(p) ==
    LET is_2pt_off == p.is_2pt /\ ~p.is_def_two_pt
        has_passer == p.passer_player_id # ""
        has_receiver == p.receiver_player_id # ""
        has_rusher == p.rusher_player_id # ""
        passish == has_receiver \/ p.play_type = "pass"
    IN  <<Rule(is_2pt_off /\ passish /\ has_passer, p.posteam, p.passer_player_id,
               ScoreRules.passing_2pt, "QB", "2pt pass (QB)"),
          Rule(is_2pt_off /\ passish /\ has_receiver, p.posteam, p.receiver_player_id,
               ScoreRules.receiving_2pt, "none", "2pt pass (receiver)"),
          Rule(is_2pt_off /\ ~passish /\ (has_rusher \/ p.play_type = "run"), p.posteam,
               p.rusher_player_id, ScoreRules.rushing_2pt, "none", "2pt rush")>>

\* engine.py 138-155: the add() calls in order
Rules(p) == KickRules(p) \o OffenseTdRules(p) \o DefensiveRules(p) \o TwoPointRules(p)

\* engine.py 126-135, 157: the frames of the add() calls concatenated, rule by
\* rule and within a rule in the order of the plays; k runs over (rule, play)
RECURSIVE AddAll(_, _, _)
AddAll(df, k, ev) ==
    LET n == Len(df)
        r == ((k - 1) \div n) + 1
        i == ((k - 1) % n) + 1
        rule == Rules(df[i])[r]
    IN  IF n = 0 \/ k > 11 * n THEN ev
        ELSE AddAll(df, k + 1,
                IF rule.on
                THEN Append(ev, [game_id |-> df[i].game_id, play_id |-> df[i].play_id,
                                 team |-> rule.team, player_id |-> rule.player_id,
                                 pts |-> rule.pts, pos_hint |-> rule.pos_hint,
                                 reason |-> rule.reason])
                ELSE ev)

\* engine.py 162-164: the lookup rows, their category normalised
Pos(rosters) ==
    [j \in 1..Len(rosters) |->
        [player_id |-> rosters[j].player_id,
         position_bucket |-> NormalizePosition(rosters[j].position_bucket)]]

\* engine.py 169, 171 for one event and the position_bucket joined to it
Positioned(e, position_bucket) ==
    [game_id |-> e.game_id, play_id |-> e.play_id, team |-> e.team,
     position |-> NormalizePosition(IF e.pos_hint # "none" THEN e.pos_hint
                                    ELSE position_bucket),
     pts |-> e.pts, reason |-> e.reason]

\* engine.py 167: merge(how="left") gives one row per lookup row with the
\* event's player_id, and one row with NaN when there is none
Matches(e, pos) ==
    LET hit == SelectSeq(pos, LAMBDA row : row.player_id = e.player_id)
    IN  IF hit = <<>> THEN <<Positioned(e, "nan")>>
        ELSE [j \in 1..Len(hit) |-> Positioned(e, hit[j].position_bucket)]

RECURSIVE MergePos(_, _, _)
MergePos(ev, pos, i) ==
    IF i > Len(ev) THEN <<>>
    ELSE Matches(ev[i], pos) \o MergePos(ev, pos, i + 1)

\* engine.py 172: sort_values, descending, on (game_date, qtr, time, play_id);
\* the plays of the model differ in play_id only
RECURSIVE InsertDesc(_, _)
InsertDesc(e, s) ==
    IF s = <<>> THEN <<e>>
    ELSE IF s[Len(s)].play_id >= e.play_id THEN Append(s, e)
    ELSE Append(InsertDesc(e, SubSeq(s, 1, Len(s) - 1)), s[Len(s)])

RECURSIVE SortEvents(_)
SortEvents(s) ==
    IF s = <<>> THEN <<>>
    ELSE InsertDesc(s[Len(s)], SortEvents(SubSeq(s, 1, Len(s) - 1)))

\* engine.py 62-172
BuildEvents(scoring_plays, rosters, scope) ==
    LET df == ApplyScope(scoring_plays, scope)
        ev == AddAll(df, 1, <<>>)
    IN  IF df = <<>> \/ ev = <<>> THEN <<>>
        ELSE SortEvents(MergePos(ev, Pos(rosters), 1))

\* engine.py 175-184
ScoreEvents(scoring_plays, rosters, scope) == BuildEvents(scoring_plays, rosters, scope)

\* a variant that counts the events of a group instead of adding their pts
GroupCount(ev, team, position, i) ==
    Cardinality({k \in i..Len(ev) : ev[k].team = team /\ ev[k].position = position})

\* engine.py 201-202: groupby(["team", "position"])["pts"].sum() for one group
RECURSIVE SumPts(_, _, _, _)
SumPts(ev, team, position, i) ==
    IF i > Len(ev) THEN 0
    ELSE (IF ev[i].team = team /\ ev[i].position = position THEN ev[i].pts ELSE 0)
         + SumPts(ev, team, position, i + 1)

\* engine.py 208: the teams with an event, sorted; an empty team name is left out
GridTeams(ev) == SelectSeq(TeamOrder, LAMBDA t : \E i \in 1..Len(ev) : ev[i].team = t)

\* a variant of the grid that keeps only the groups with an event
GroupedOnly(ev) ==
    LET teams == GridTeams(ev)
        cells == [k \in 1..(Len(teams) * Len(POSITION_BUCKETS)) |->
                    [team |-> teams[((k - 1) \div 6) + 1],
                     position |-> PositionSorted[((k - 1) % 6) + 1],
                     pts |-> SumPts(ev, teams[((k - 1) \div 6) + 1],
                                    PositionSorted[((k - 1) % 6) + 1], 1)]]
    IN  SelectSeq(cells, LAMBDA row : row.pts > 0)

\* engine.py 200-214: group and sum, reindex over teams x POSITION_BUCKETS with
\* fill_value 0, sort by (team, position)
Grid(ev) ==
    LET teams == GridTeams(ev)
    IN  [k \in 1..(Len(teams) * Len(POSITION_BUCKETS)) |->
            [team |-> teams[((k - 1) \div 6) + 1],
             position |-> PositionSorted[((k - 1) % 6) + 1],
             pts |-> SumPts(ev, teams[((k - 1) \div 6) + 1],
                            PositionSorted[((k - 1) % 6) + 1], 1)]]

\* engine.py 187-214
ScoreTeamPositionTotals(scoring_plays, rosters, scope) ==
    LET ev == BuildEvents(scoring_plays, rosters, scope)
    IN  IF ev = <<>> THEN <<>> ELSE Grid(ev)


VARIABLES
    now,      \* the wall clock
    marker,   \* the lock file: NoMarker or [owner, mtime]
    cum,      \* the cumulative scoring-play file
    state,    \* the refresh state file: game_id -> row
    env,      \* the surroundings: calling processes, what the feeds can return
    pc,       \* each process's position in refresh_playoff_games
    loc,      \* each process's local variables
    m_old, m_new,    \* upsert_latest_wins: the arguments of a merge
    m_out, m_out2,   \* the result, and the result of merging m_new again
    m_step,          \* merges done on m_old, m_new
    s_plays, s_rosters, s_scope,   \* the scoring engine: its arguments
    s_events, s_totals,            \* score_events, score_team_position_totals
    s_step,                        \* engine calls made on the arguments
    d_pbp, d_cfg,                  \* derive_scoring_plays: the frame, cfg.refreshed_at
    d_out, d_out2,                 \* the output of a run and of a second run
    d_step                         \* runs made on the arguments

vars == <<now, marker, cum, state, env, pc, loc, m_old, m_new, m_out, m_out2, m_step,
          s_plays, s_rosters, s_scope, s_events, s_totals, s_step,
          d_pbp, d_cfg, d_out, d_out2, d_step>>
sysvars == <<now, marker, cum, state, env, pc, loc>>
mvars == <<m_old, m_new, m_out, m_out2, m_step>>
evars == <<s_plays, s_rosters, s_scope, s_events, s_totals, s_step>>
dvars == <<d_pbp, d_cfg, d_out, d_out2, d_step>>

NoResult ==
    [ret |-> "none", ok |-> FALSE, msg |-> "", games_requested |-> 0, games_refreshed |-> 0,
     games_frozen |-> 0, eligible_games |-> 0, changed |-> FALSE]

Result(ok, msg, requested, refreshed, frozen, eligible, changed) ==
    [ret |-> "result", ok |-> ok, msg |-> msg, games_requested |-> requested,
     games_refreshed |-> refreshed, games_frozen |-> frozen, eligible_games |-> eligible,
     changed |-> changed]

Raised(exc) == [NoResult EXCEPT !.ret = exc]

\* locals of one call; acquired, seen, batch, cum0 and state0 are history:
\* whether this call created a marker, the mtime of the marker it found
\* stale, the scoring batch it derived, and the two stores as they were when
\* the call started (kept when calls cannot overlap)
IdleLoc ==
    [req |-> <<>>, fd |-> FALSE, seen |-> Null, state_df |-> EmptyState, to_refresh |-> <<>>,
     any_loaded |-> FALSE, schema_ok |-> TRUE, metrics |-> <<>>, tnow |-> Null, combined |-> <<>>, res |-> NoResult,
     acquired |-> FALSE, batch |-> "none", cum0 |-> CumAbsent,
     state0 |-> EmptyState]

\* a variant without __exit__: an exception leaves the marker behind
ExitSkipsReleaseOnError(how) == IF how = "exception" THEN "done" ELSE "release"

\* `with FileLock(...)`: every way out of the block runs __exit__ -> release
ExitPc(how) == "release"

Leave(p, how, res) ==
    /\ pc' = [pc EXCEPT ![p] = ExitPc(how)]
    /\ loc' = [loc EXCEPT ![p].res = res]

\* nothing on disk, nobody running
InitFiles ==
    /\ now = 0
    /\ marker = NoMarker
    /\ cum = CumAbsent
    /\ state = EmptyState
    /\ pc = [p \in AllProcs |-> "idle"]
    /\ loc = [p \in AllProcs |-> IdleLoc]

Init0 ==
    /\ InitFiles
    /\ m_old = <<>> /\ m_new = <<>> /\ m_out = <<>> /\ m_out2 = <<>> /\ m_step = 2
    /\ s_plays = <<>> /\ s_rosters = <<>> /\ s_scope = NoScope
    /\ s_events = <<>> /\ s_totals = <<>> /\ s_step = 2
    /\ d_pbp = <<>> /\ d_cfg = Null /\ d_out = <<>> /\ d_out2 = <<>> /\ d_step = 2

TdRow(g, n) == [game_id |-> g, play_id |-> n, touchdown |-> 1, desc |-> "a"]

\* several sessions of the app may trigger a refresh at the same time; the
\* feed reports the game final with play_id 1
Init ==
    /\ Init0
    /\ env = [procs |-> AllProcs, requests |-> {<<"g1">>},
              kinds |-> {k \in OutcomeKinds : k.max_play_id = 1 /\ k.is_final},
              rows |-> {TdRow("g1", 1)}, lens |-> {1}, schemas |-> {TRUE}]

\* one session only, refresh cycles follow one another; every fetch outcome
InitSeq ==
    /\ Init0
    /\ env = [procs |-> {"p1"}, requests |-> {<<>>, <<"g1">>}, kinds |-> OutcomeKinds,
              rows |-> {TdRow("g1", 1)}, lens |-> {0, 1}, schemas |-> {TRUE}]

\* one session only, two games, the fetch outcomes with play_id 1
InitTwo ==
    /\ Init0
    /\ env = [procs |-> {"p1"}, requests |-> {<<"g1">>, <<"g1", "g2">>},
              kinds |-> {k \in OutcomeKinds : k.status = "error" \/ k.max_play_id = 1},
              rows |-> {TdRow("g1", 1)}, lens |-> {1}, schemas |-> {TRUE}]

\* one session only; every raw frame of up to two rows
InitCum ==
    /\ Init0
    /\ env = [procs |-> {"p1"}, requests |-> {<<>>, <<"g1">>},
              kinds |-> {k \in OutcomeKinds : k.status = "ok" /\ k.max_play_id # 2 /\ ~k.is_final},
              rows |-> {r \in RawRows : r.game_id = "g1"}, lens |-> {0, 1, 2},
              schemas |-> {TRUE}]

\* one session only; the metrics frame handed to the schema check at
\* refresh.py 281-294 may lack a required column
InitSchema ==
    /\ Init0
    /\ env = [procs |-> {"p1"}, requests |-> {<<"g1">>},
              kinds |-> {k \in OutcomeKinds : k.status = "ok" /\ k.max_play_id # 2 /\ ~k.is_final},
              rows |-> {TdRow("g1", 1)}, lens |-> {0, 1}, schemas |-> BOOLEAN]

\* one session only; the caller's id list may name a game twice (the ids are
\* stripped at refresh.py 188, not deduplicated)
InitDup ==
    /\ Init0
    /\ env = [procs |-> {"p1"}, requests |-> {<<"g1">>, <<"g1", "g1">>},
              kinds |-> {k \in OutcomeKinds : k.status = "error" \/ (k.max_play_id = 1 /\ ~k.is_final)},
              rows |-> {TdRow("g1", 1)}, lens |-> {1}, schemas |-> {TRUE}]

\* A reading of the wall clock: not before the last reading taken.
ClockReadings == now..MaxTime

\* ------------------------------------------------------- FileLock.acquire
Sequential == Cardinality(env.procs) = 1

AtStart(x, none) == IF Sequential THEN x ELSE none

\* refresh_playoff_games 188-203: normalise the ids; none -> return at once
Call(p) ==
    /\ p \in env.procs
    /\ pc[p] = "idle"
    /\ \A g \in Games : state[g].no_new_pbp_streak < MaxStreak
    /\ \E ids \in env.requests :
        IF Len(ids) = 0
        THEN /\ pc' = [pc EXCEPT ![p] = "done"]
             /\ loc' = [loc EXCEPT ![p] =
                    [IdleLoc EXCEPT !.cum0 = AtStart(cum, CumAbsent),
                        !.state0 = AtStart(state, EmptyState),
                        !.res = Result(TRUE, "no_ids", 0, 0, 0, 0, FALSE)]]
        ELSE /\ pc' = [pc EXCEPT ![p] = "acq_exists"]
             /\ loc' = [loc EXCEPT ![p] =
                    [IdleLoc EXCEPT !.req = ids, !.cum0 = AtStart(cum, CumAbsent),
                        !.state0 = AtStart(state, EmptyState)]]
    /\ UNCHANGED <<now, marker, cum, state, env, mvars, evars, dvars>>

\* acquire 49: lock_path.exists()
AcquireExists(p) ==
    /\ pc[p] = "acq_exists"
    /\ pc' = [pc EXCEPT ![p] = IF marker # NoMarker THEN "acq_stat" ELSE "acq_create"]
    /\ UNCHANGED <<now, marker, cum, state, env, loc, mvars, evars, dvars>>

\* variants of the age test: every marker stale, no marker stale
IsStaleAlways(mtime, clk) == TRUE

IsStaleNever(mtime, clk) == FALSE

\* FileLock.stale_seconds test, acquire 51
IsStale(mtime, clk) == (clk - mtime) > StaleSeconds

\* acquire 50-51: stat the marker; it may be gone by now (FileNotFoundError)
AcquireStat(p) ==
    /\ pc[p] = "acq_stat"
    /\ IF marker = NoMarker
       THEN /\ pc' = [pc EXCEPT ![p] = "done"]
            /\ loc' = [loc EXCEPT ![p].res = Raised("OSError")]
            /\ UNCHANGED now
       ELSE \E t \in ClockReadings :
            /\ now' = t
            /\ IF IsStale(marker.mtime, t)
               THEN /\ pc' = [pc EXCEPT ![p] = "acq_unlink"]
                    /\ loc' = [loc EXCEPT ![p].seen = marker.mtime]
               ELSE /\ pc' = [pc EXCEPT ![p] = "acq_create"]
                    /\ UNCHANGED loc
    /\ UNCHANGED <<marker, cum, state, env, mvars, evars, dvars>>

\* acquire 52-55: unlink whatever is at lock_path; OSError is swallowed
AcquireUnlink(p) ==
    /\ pc[p] = "acq_unlink"
    /\ marker' = NoMarker
    /\ pc' = [pc EXCEPT ![p] = "acq_create"]
    /\ UNCHANGED <<now, cum, state, env, loc, mvars, evars, dvars>>

\* acquire 57-63: O_CREAT | O_EXCL, or RefreshInProgress
AcquireCreate(p) ==
    /\ pc[p] = "acq_create"
    /\ IF marker # NoMarker
       THEN /\ pc' = [pc EXCEPT ![p] = "done"]
            /\ loc' = [loc EXCEPT ![p].res = Raised("RefreshInProgress")]
            /\ UNCHANGED marker
            /\ UNCHANGED now
       ELSE \E t \in ClockReadings :
            /\ now' = t
            /\ marker' = [owner |-> p, mtime |-> t]
            /\ pc' = [pc EXCEPT ![p] = "read_state"]
            /\ loc' = [loc EXCEPT ![p].fd = TRUE, ![p].acquired = TRUE]
    /\ UNCHANGED <<cum, state, env, mvars, evars, dvars>>

\* release 65-75: close the descriptor, unlink lock_path if it exists
Release(p) ==
    /\ pc[p] = "release"
    /\ marker' = NoMarker
    /\ pc' = [pc EXCEPT ![p] = "done"]
    /\ loc' = [loc EXCEPT ![p].fd = FALSE]
    /\ UNCHANGED <<now, cum, state, env, mvars, evars, dvars>>

\* ------------------------------------------- refresh_playoff_games body
FrozenCount(sd) == Cardinality({g \in Games : sd[g].exists /\ sd[g].is_frozen})

\* the RefreshResult of the `except Exception` branch, refresh.py 266-277
Failed(l) == Result(FALSE, "refresh_failed", Len(l.req), 0, 0, Len(l.to_refresh), FALSE)

\* refresh.py 204-233: read the state file, select, short-circuit
ReadState(p) ==
    /\ pc[p] = "read_state"
    /\ LET tr == SelectGamesToRefresh(loc[p].req, state)
       IN  IF Len(tr) = 0
           THEN /\ pc' = [pc EXCEPT ![p] = ExitPc("return")]
                /\ loc' = [loc EXCEPT ![p].state_df = state,
                        ![p].res = Result(TRUE, "nothing_to_refresh", Len(loc[p].req), 0,
                                          FrozenCount(state), 0, FALSE)]
           ELSE /\ pc' = [pc EXCEPT ![p] = "fetch"]
                /\ loc' = [loc EXCEPT ![p].state_df = state, ![p].to_refresh = tr]
    /\ UNCHANGED <<now, marker, cum, state, env, mvars, evars, dvars>>

\* refresh.py 238-257: stamp now, fetch live play-by-play; any_loaded says
\* whether the fetch returned rows, schema_ok whether the metrics frame has
\* the columns refresh.py 282 requires.  The metrics list it returned is read
\* from refresh.py 296 on and is bound there.
Fetch(p) ==
    /\ pc[p] = "fetch"
    /\ \E t \in ClockReadings, any_loaded \in BOOLEAN, schema_ok \in env.schemas :
        /\ \E ms \in MetricsFor(loc[p].to_refresh, env.kinds) : AnyLoaded(ms) = any_loaded
        /\ now' = t
        /\ loc' = [loc EXCEPT ![p].any_loaded = any_loaded, ![p].schema_ok = schema_ok,
                              ![p].tnow = t]
        /\ pc' = [pc EXCEPT ![p] = IF any_loaded THEN "pbp" ELSE "update"]
    /\ UNCHANGED <<marker, cum, state, env, mvars, evars, dvars>>

\* the fetch raises (schedule lookup, metrics file): leaves the with block
FetchRaise(p) ==
    /\ pc[p] = "fetch"
    /\ Leave(p, "exception", Raised("exception"))
    /\ UNCHANGED <<now, marker, cum, state, env, mvars, evars, dvars>>

\* refresh_pbp 55-110: load, derive, read the old table, build the new one
PbpRead(p) ==
    /\ pc[p] = "pbp"
    /\ IF cum.st = "blank"
       THEN \* pd.read_csv on a file without columns raises EmptyDataError
            Leave(p, "return", Failed(loc[p])) /\ UNCHANGED now
       ELSE \E raw \in RawBatches(loc[p].to_refresh, env.rows, env.lens), t \in ClockReadings :
              LET scoring == DeriveScoringPlays(raw, t)
                  old == cum.rows
                  b == IF scoring = <<>> THEN "empty" ELSE "rows"
              IN  IF Len(raw) = 0 /\ old # <<>>
                  THEN /\ now' = t
                       /\ pc' = [pc EXCEPT ![p] = "pbp_log"]
                       /\ loc' = [loc EXCEPT ![p].batch = b]
                  ELSE /\ now' = t
                       /\ pc' = [pc EXCEPT ![p] = "pbp_open"]
                       /\ loc' = [loc EXCEPT ![p].batch = b,
                                             ![p].combined = Combined(old, scoring)]
    /\ UNCHANGED <<marker, cum, state, env, mvars, evars, dvars>>

\* refresh_pbp raises before it writes (roster or play-by-play download)
PbpRaise(p) ==
    /\ pc[p] = "pbp"
    /\ Leave(p, "return", Failed(loc[p]))
    /\ UNCHANGED <<now, marker, cum, state, env, mvars, evars, dvars>>

\* refresh_pbp 119: to_csv opens out_path for writing, which truncates it
PbpWriteOpen(p) ==
    /\ pc[p] = "pbp_open"
    /\ cum' = CumBlank
    /\ pc' = [pc EXCEPT ![p] = "pbp_write"]
    /\ UNCHANGED <<now, marker, state, env, loc, mvars, evars, dvars>>

\* refresh_pbp 119: the rows are written
PbpWriteDone(p) ==
    /\ pc[p] = "pbp_write"
    /\ cum' = CumTable(loc[p].combined)
    /\ pc' = [pc EXCEPT ![p] = "pbp_log"]
    /\ UNCHANGED <<now, marker, state, env, loc, mvars, evars, dvars>>

\* refresh_pbp 120-157: latest copy, log and status files written
PbpLog(p) ==
    /\ pc[p] = "pbp_log"
    /\ pc' = [pc EXCEPT ![p] = "update"]
    /\ UNCHANGED <<now, marker, cum, state, env, loc, mvars, evars, dvars>>

\* one of those writes raises: refresh.py 266-277 returns ok = False
PbpLogRaise(p) ==
    /\ pc[p] = "pbp_log"
    /\ Leave(p, "return", Failed(loc[p]))
    /\ UNCHANGED <<now, marker, cum, state, env, mvars, evars, dvars>>

\* the RefreshResult of the schema check, refresh.py 281-294
MissingColumns(l) ==
    Result(FALSE, "metrics_missing_columns", Len(l.req), Len(l.to_refresh), 0,
           Len(l.to_refresh), FALSE)

\* refresh.py 279-415: the schema check, changed, the per-game loop (an empty
\* state_df is read again at 314-315), the atomic state write
UpdateStateFile(p) ==
    /\ pc[p] = "update"
    /\ IF ~loc[p].schema_ok
       THEN Leave(p, "return", MissingColumns(loc[p])) /\ UNCHANGED <<now, state>>
       ELSE \E ms \in MetricsFor(loc[p].to_refresh, env.kinds), t \in ClockReadings :
        LET l == loc[p]
            base == IF StateEmpty(l.state_df) THEN state ELSE l.state_df
            u == UpdateState(base, ms, l.tnow, t)
            n == Len(l.to_refresh)
        IN  /\ AnyLoaded(ms) = l.any_loaded
            /\ now' = t
            /\ state' = u.sd
            /\ pc' = [pc EXCEPT ![p] = ExitPc("return")]
            /\ loc' = [loc EXCEPT ![p].metrics = ms,
                        ![p].res = Result(TRUE, "complete", Len(l.req), n, u.frozen_now, n,
                                          AdvancedAny(l.state_df, ms))]
    /\ UNCHANGED <<marker, cum, env, mvars, evars, dvars>>

\* the state write raises (OSError): the exception leaves the with block
UpdateRaise(p) ==
    /\ pc[p] = "update"
    /\ loc[p].schema_ok
    /\ Leave(p, "exception", Raised("exception"))
    /\ UNCHANGED <<now, marker, cum, state, env, mvars, evars, dvars>>

\* the caller takes the result; the process may call again
Return(p) ==
    /\ pc[p] = "done"
    /\ pc' = [pc EXCEPT ![p] = "idle"]
    /\ loc' = [loc EXCEPT ![p] = IdleLoc]
    /\ UNCHANGED <<now, marker, cum, state, env, mvars, evars, dvars>>

\* the process dies inside a call: nothing of it runs any more, and the
\* files stay as they are
Crash(p) ==
    /\ pc[p] \notin {"idle", "done"}
    /\ pc' = [pc EXCEPT ![p] = "idle"]
    /\ loc' = [loc EXCEPT ![p] = IdleLoc]
    /\ UNCHANGED <<now, marker, cum, state, env, mvars, evars, dvars>>

Next ==
    \E p \in AllProcs :
        \/ Call(p) \/ AcquireExists(p) \/ AcquireStat(p) \/ AcquireUnlink(p)
        \/ AcquireCreate(p) \/ ReadState(p) \/ Fetch(p) \/ FetchRaise(p)
        \/ PbpRead(p) \/ PbpRaise(p) \/ PbpWriteOpen(p) \/ PbpWriteDone(p)
        \/ PbpLog(p) \/ PbpLogRaise(p) \/ UpdateStateFile(p) \/ UpdateRaise(p)
        \/ Release(p) \/ Return(p) \/ Crash(p)

Spec == Init /\ [][Next]_vars

SpecSeq == InitSeq /\ [][Next]_vars

SpecTwo == InitTwo /\ [][Next]_vars

SpecCum == InitCum /\ [][Next]_vars

SpecSchema == InitSchema /\ [][Next]_vars

SpecDup == InitDup /\ [][Next]_vars

\* ------------------------------------------------ upsert_latest_wins alone
MergeKeys == {<<"g1", 1>>, <<"g1", 2>>, <<"g2", 1>>}

\* rows whose two attributes go together, so that a row mixing the attributes
\* of two rows is none of them
MergeRows ==
    {r \in Rows : <<r.game_id, r.play_id>> \in MergeKeys /\ (r.is_td <=> r.desc = "a")}

MergeLens == {0, 1, 2}

\* an existing table: unique keys; a batch: any rows
MergeBatches == UNION {[1..n -> MergeRows] : n \in MergeLens}

MergeTables == {s \in MergeBatches : UniqueKeys(s)}

InitMerge ==
    /\ InitFiles
    /\ env = [procs |-> {}, requests |-> {}, kinds |-> {}, rows |-> {}, lens |-> {},
              schemas |-> {}]
    /\ m_old \in MergeTables
    /\ m_new \in MergeBatches
    /\ m_out = <<>> /\ m_out2 = <<>> /\ m_step = 0
    /\ s_plays = <<>> /\ s_rosters = <<>> /\ s_scope = NoScope
    /\ s_events = <<>> /\ s_totals = <<>> /\ s_step = 2
    /\ d_pbp = <<>> /\ d_cfg = Null /\ d_out = <<>> /\ d_out2 = <<>> /\ d_step = 2

\* merged = upsert_latest_wins(old, new)
MergeOnce ==
    /\ m_step = 0
    /\ m_out' = UpsertLatestWins(m_old, m_new)
    /\ m_step' = 1
    /\ UNCHANGED <<sysvars, evars, dvars, m_old, m_new, m_out2>>

\* upsert_latest_wins(merged, new): the same batch merged again
MergeAgain ==
    /\ m_step = 1
    /\ m_out2' = UpsertLatestWins(m_out, m_new)
    /\ m_step' = 2
    /\ UNCHANGED <<sysvars, evars, dvars, m_old, m_new, m_out>>

NextMerge == MergeOnce \/ MergeAgain

SpecMerge == InitMerge /\ [][NextMerge]_vars

\* ------------------------------------------------ the aggregation engine
\* a row of the participant -> category table
LookupRow(player_id, position_bucket) ==
    [player_id |-> player_id, position_bucket |-> position_bucket]

\* lookup tables as positions.py 51-73 writes them: (player_id, position
\* bucket) pairs without repetition, so an id may have several rows
LookupTables ==
    {<<>>,
     <<LookupRow("a", "QB"), LookupRow("b", "WR"), LookupRow("c", "FB"), LookupRow("k", "K")>>,
     <<LookupRow("b", "WR"), LookupRow("b", "RB")>>}

\* one stored play of KC against SF with every combination of flags,
\* participant ids and play types; a kick, and only a kick, names its kicker
OnePlays ==
    {StoredPlay("g1", 1, 1, "KC", "SF", pt, fl, pa, re, ru,
                IF fl.is_fg \/ fl.is_xp THEN "k" ELSE "") :
        pt \in {"pass", "run", ""}, fl \in StoredFlags, pa \in {"", "a"},
        re \in {"", "b"}, ru \in {"", "c"}}

\* the teams of a play; a side may be missing from the row
TeamPairs == {<<"KC", "SF">>, <<"SF", "KC">>, <<"", "SF">>, <<"KC", "">>}

\* a field goal, a pass touchdown, a defensive touchdown or a safety, as play
\* n of game g (g1 is played in week 1, g2 in week 2)
TablePlays(g, n) ==
    LET wk == IF g = "g1" THEN 1 ELSE 2
    IN  UNION {
          {StoredPlay(g, n, wk, t[1], t[2], "field_goal",
                      ScoringFlags(FALSE, FALSE, FALSE, TRUE, FALSE, FALSE, FALSE, FALSE),
                      "", "", "", "k"),
           StoredPlay(g, n, wk, t[1], t[2], "pass",
                      ScoringFlags(TRUE, TRUE, FALSE, FALSE, FALSE, FALSE, FALSE, FALSE),
                      "a", "b", "", ""),
           StoredPlay(g, n, wk, t[1], t[2], "pass",
                      ScoringFlags(TRUE, FALSE, FALSE, FALSE, FALSE, FALSE, FALSE, FALSE),
                      "a", "", "", ""),
           StoredPlay(g, n, wk, t[1], t[2], "run",
                      ScoringFlags(FALSE, FALSE, FALSE, FALSE, FALSE, FALSE, FALSE, TRUE),
                      "", "", "c", "")} : t \in TeamPairs}

\* two stored plays with distinct keys
TwoPlays == {<<p, q>> : p \in TablePlays("g1", 1), q \in TablePlays("g1", 2) \cup TablePlays("g2", 1)}

\* app.py 447-461 passes the season and the playoff game ids; a week ceiling
\* is the other scope engine.py 41-59 takes
Scopes ==
    {[season |-> 2025, by |-> "game_ids", game_ids |-> {"g1"}, week_max |-> 0],
     [season |-> 2025, by |-> "game_ids", game_ids |-> {"g1", "g2"}, week_max |-> 0],
     [season |-> 2025, by |-> "week_max", game_ids |-> {}, week_max |-> 1]}

InitScore ==
    /\ InitFiles
    /\ env = [procs |-> {}, requests |-> {}, kinds |-> {}, rows |-> {}, lens |-> {},
              schemas |-> {}]
    /\ m_old = <<>> /\ m_new = <<>> /\ m_out = <<>> /\ m_out2 = <<>> /\ m_step = 2
    /\ \/ /\ s_plays \in {<<p>> : p \in OnePlays}
          /\ s_rosters \in LookupTables
          /\ s_scope \in {sc \in Scopes : sc.game_ids = {"g1", "g2"}}
       \/ /\ s_plays \in TwoPlays
          /\ s_rosters \in LookupTables
          /\ s_scope \in Scopes
    /\ s_events = <<>> /\ s_totals = <<>> /\ s_step = 0
    /\ d_pbp = <<>> /\ d_cfg = Null /\ d_out = <<>> /\ d_out2 = <<>> /\ d_step = 2

\* app.py 447-453
CallTotals ==
    /\ s_step = 0
    /\ s_totals' = ScoreTeamPositionTotals(s_plays, s_rosters, s_scope)
    /\ s_step' = 1
    /\ UNCHANGED <<sysvars, mvars, dvars, s_plays, s_rosters, s_scope, s_events>>

\* app.py 455-461
CallEvents ==
    /\ s_step = 1
    /\ s_events' = ScoreEvents(s_plays, s_rosters, s_scope)
    /\ s_step' = 2
    /\ UNCHANGED <<sysvars, mvars, dvars, s_plays, s_rosters, s_scope, s_totals>>

NextScore == CallTotals \/ CallEvents

SpecScore == InitScore /\ [][NextScore]_vars

\* ------------------------------------------------ derive_scoring_plays alone
\* raw play-by-play row n of g1: the indicators as the release carries them
\* ("NA" missing, "x" not a number)
DeriveRows(n) ==
    [game_id : {"g1"}, play_id : {n}, touchdown : {"1", "0", "x"},
     pass_touchdown : BOOLEAN, rush_touchdown : {FALSE},
     field_goal_result : {"made", "missed", "NA"}, extra_point_result : {"good", "NA"},
     two_point_conv_result : {"success", "failure"},
     defensive_two_point_conv : {"1", "NA"}, safety : {"1", "0"}]

\* frames of one row, and of two rows that differ in at most the touchdown,
\* field goal and defensive two-point indicators
DeriveFrames ==
    {<<r>> : r \in DeriveRows(1)}
    \cup {<<r, q>> : r \in {x \in DeriveRows(1) : ~x.pass_touchdown /\ x.extra_point_result = "NA"
                                    /\ x.two_point_conv_result = "failure" /\ x.safety = "0"},
                     q \in {x \in DeriveRows(2) : ~x.pass_touchdown /\ x.extra_point_result = "NA"
                                    /\ x.two_point_conv_result = "failure" /\ x.safety = "0"}}

InitDerive ==
    /\ InitFiles
    /\ env = [procs |-> {}, requests |-> {}, kinds |-> {}, rows |-> {}, lens |-> {},
              schemas |-> {}]
    /\ m_old = <<>> /\ m_new = <<>> /\ m_out = <<>> /\ m_out2 = <<>> /\ m_step = 2
    /\ s_plays = <<>> /\ s_rosters = <<>> /\ s_scope = NoScope
    /\ s_events = <<>> /\ s_totals = <<>> /\ s_step = 2
    /\ d_pbp \in DeriveFrames
    /\ d_cfg \in {Null} \cup (0..MaxTime)
    /\ d_out = <<>> /\ d_out2 = <<>> /\ d_step = 0

\* derive_scoring_plays(pbp, cfg) at some time
DeriveOnce ==
    /\ d_step = 0
    /\ \E t \in ClockReadings :
          /\ now' = t
          /\ d_out' = DeriveWithConfig(d_pbp, d_cfg, t)
    /\ d_step' = 1
    /\ UNCHANGED <<marker, cum, state, env, pc, loc, mvars, evars, d_pbp, d_cfg, d_out2>>

\* the same call again, not earlier
DeriveAgain ==
    /\ d_step = 1
    /\ \E t \in ClockReadings :
          /\ now' = t
          /\ d_out2' = DeriveWithConfig(d_pbp, d_cfg, t)
    /\ d_step' = 2
    /\ UNCHANGED <<marker, cum, state, env, pc, loc, mvars, evars, d_pbp, d_cfg, d_out>>

NextDerive == DeriveOnce \/ DeriveAgain

SpecDerive == InitDerive /\ [][NextDerive]_vars

\* ================================================================ claims
\* a process is inside the locked section: after a successful acquire and
\* before its release has run
InLocked(p) ==
    pc[p] \in {"read_state", "fetch", "pbp", "pbp_open", "pbp_write", "pbp_log", "update", "release"}

\* the call of p has ended with a failure: ok = False, or an exception
CycleFailed(p) ==
    /\ pc[p] = "done"
    /\ \/ loc[p].res.ret = "result" /\ ~loc[p].res.ok
       \/ loc[p].res.ret = "exception"

\* C1: mutual exclusion - at most one refresh cycle is inside the locked
\* section at any time, under every interleaving of acquire, release and
\* stale reclaim.
C1_MutualExclusion == Cardinality({p \in AllProcs : InLocked(p)}) <= 1

\* C2: frozen is terminal - a game whose state row has is_frozen = true has
\* is_frozen = true in the state file after every later step of any cycle.
C2_FrozenTerminal ==
    [][\A g \in Games :
        (state[g].exists /\ state[g].is_frozen) => (state'[g].exists /\ state'[g].is_frozen)]_vars

\* a cycle that rewrote the state file has ended, and a game that was frozen
\* when it started is in the file
C2_Witness ==
    \E p \in AllProcs, g \in Games :
        /\ pc[p] = "done" /\ loc[p].res.msg = "complete"
        /\ loc[p].state0[g].is_frozen /\ state[g].is_frozen

\* C3: unique key - the result of upsert_latest_wins(existing, new) has at
\* most one row per (game_id, play_id), also when existing is empty and new
\* holds several rows with the same key.
C3_UniqueKey == m_step >= 1 => UniqueKeys(m_out)

\* C4: idempotent merge - merge(merge(C, B), B) is the same set of rows as
\* merge(C, B), for every existing table C (empty or not) and batch B.
C4_Idempotent == m_step = 2 => RowSet(m_out2) = RowSet(m_out)

\* the input row that wins for the key of r: greatest refreshed_at, and among
\* those the one that arrived last in existing ++ new
Winner(s, r) ==
    LET idx == {i \in 1..Len(s) : SameKey(s[i], r)}
        top == {i \in idx : \A j \in idx : s[j].refreshed_at <= s[i].refreshed_at}
    IN  s[CHOOSE i \in top : \A j \in top : j <= i]

\* C5: latest wins - for every key present in existing or new, the merged
\* row equals in every field the input row with the greatest refreshed_at
\* for that key (on a tie the one that arrived last).
C5_LatestWins ==
    m_step >= 1 =>
        /\ KeySet(m_out) = KeySet(m_old \o m_new)
        /\ \A i \in 1..Len(m_out) : m_out[i] = Winner(m_old \o m_new, m_out[i])

C7_ReleasedOnExit ==
    \A p \in AllProcs : (pc[p] = "done" /\ loc[p].acquired) => marker.owner # p

\* a cycle that acquired the lock has ended with an exception
C7_Witness ==
    \E p \in AllProcs :
        pc[p] = "done" /\ loc[p].acquired /\ loc[p].res.ret = "exception" /\ marker = NoMarker

\* C8: fail-fast contention - a step of acquire() taken while a marker exists
\* whose age is below the staleness threshold never deletes or replaces the
\* marker and changes neither store; its create step raises
\* RefreshInProgress at once.
C8_FailFast ==
    [][\A p \in AllProcs :
        (/\ pc[p] \in {"acq_exists", "acq_stat", "acq_create"}
         /\ pc'[p] \notin {pc[p], "idle"}
         /\ marker # NoMarker
         /\ now' - marker.mtime < StaleSeconds)
        => /\ marker' = marker /\ cum' = cum /\ state' = state
           /\ pc'[p] \in {"acq_stat", "acq_create", "done"}
           /\ pc[p] = "acq_create" => pc'[p] = "done"
           /\ pc'[p] = "done" => loc'[p].res.ret = "RefreshInProgress"]_vars

\* an acquire has failed on a marker younger than the threshold
C8_Witness ==
    \E p \in AllProcs :
        /\ pc[p] = "done" /\ loc[p].res.ret = "RefreshInProgress"
        /\ marker # NoMarker /\ now - marker.mtime < StaleSeconds

\* C9 as stated: an acquire() that found the marker older than the staleness
\* threshold succeeds.
C9_StaleAcquireSucceeds ==
    \A p \in AllProcs :
        (pc[p] = "done" /\ loc[p].seen # Null) => loc[p].res.ret # "RefreshInProgress"

\* C9 as amended: an acquire() whose age check finds the marker older than
\* the threshold deletes it; its create step then succeeds, unless another
\* process has created a newer marker since, and then it raises
\* RefreshInProgress on that newer marker.
C9_StaleReclaim ==
    [][\A p \in AllProcs :
        /\ (pc[p] = "acq_stat" /\ pc'[p] \notin {pc[p], "idle"} /\ marker # NoMarker
                /\ now' - marker.mtime > StaleSeconds)
            => pc'[p] = "acq_unlink"
        /\ (pc[p] = "acq_unlink" /\ pc'[p] \notin {pc[p], "idle"})
            => (marker' = NoMarker /\ pc'[p] = "acq_create")
        /\ (pc[p] = "acq_create" /\ pc'[p] \notin {pc[p], "idle"} /\ loc[p].seen # Null)
            => IF marker = NoMarker
               THEN pc'[p] = "read_state" /\ marker'.owner = p
               ELSE marker.mtime > loc[p].seen /\ loc'[p].res.ret = "RefreshInProgress"]_vars

\* a holder has crashed (its marker has no running owner), and an acquire
\* that found that marker stale holds the lock
C9_Witness ==
    \E p \in AllProcs :
        /\ pc[p] = "read_state" /\ loc[p].seen # Null /\ marker.owner = p
        /\ \A q \in AllProcs \ {p} : pc[q] = "idle"

\* C10: failure atomicity - when a cycle has failed (ok = false or an
\* exception), the cumulative table and the state file are exactly as they
\* were when the cycle started.
C10_FailureAtomic ==
    \A p \in AllProcs : CycleFailed(p) => (cum = loc[p].cum0 /\ state = loc[p].state0)

C12_NoPartialWrite ==
    \A p \in AllProcs :
        InLocked(p) =>
            /\ cum \in {loc[p].cum0, CumTable(loc[p].combined)}
            /\ \/ state = loc[p].state0
               \/ loc[p].res.msg = "complete"

\* the call of p has run to the end of the cycle and written the state file
Completed(p) == pc[p] = "done" /\ loc[p].res.msg = "complete"

\* p is between the selection of the games and the state write
Fetching(p) == pc[p] \in {"fetch", "pbp", "pbp_open", "pbp_write", "pbp_log", "update"}

\* C13: freeze on final - a game without a state row whose first fetch
\* (status not not_loaded_yet) reports is_final is frozen with reason
\* "final" when that cycle ends, and no later cycle fetches it.
C13_FreezeOnFinal ==
    \A p \in AllProcs :
        /\ Completed(p) =>
            \A i \in 1..Len(loc[p].metrics) :
                LET m == loc[p].metrics[i]
                IN  (~loc[p].state0[m.game_id].exists /\ m.status # "not_loaded_yet" /\ m.is_final)
                        => /\ state[m.game_id].is_frozen
                           /\ state[m.game_id].freeze_reason = "final"
        /\ Fetching(p) =>
            \A i \in 1..Len(loc[p].to_refresh) :
                state[loc[p].to_refresh[i]].freeze_reason # "final"

\* a first-seen game reported final has been frozen by the cycle that ended
C13_Witness ==
    \E p \in AllProcs :
        /\ Completed(p) /\ Len(loc[p].metrics) > 0
        /\ LET m == loc[p].metrics[1]
           IN  /\ ~loc[p].state0[m.game_id].exists /\ m.status = "ok" /\ m.is_final
               /\ state[m.game_id].freeze_reason = "final"

\* C14: inactivity freeze is never premature - a game frozen in a cycle with
\* reason "inactive_timeout" has a post-update streak >= 2 and a
\* last_new_pbp_at at least the inactivity threshold old; a non-final game
\* whose post-update streak is 0 or 1 stays active.
C14_InactivityNotPremature ==
    \A p \in AllProcs :
        Completed(p) =>
            \A i \in 1..Len(loc[p].metrics) :
                LET m == loc[p].metrics[i]
                    old == loc[p].state0[m.game_id]
                    new == state[m.game_id]
                IN  /\ (~old.is_frozen /\ new.is_frozen /\ new.freeze_reason = "inactive_timeout")
                        => /\ new.no_new_pbp_streak >= 2
                           /\ new.last_new_pbp_at # Null
                           /\ now - new.last_new_pbp_at >= InactiveSeconds
                    /\ (~old.is_frozen /\ ~m.is_final /\ new.no_new_pbp_streak <= 1)
                        => ~new.is_frozen

\* a game has been frozen for inactivity by the cycle that ended
C14_Witness ==
    \E p \in AllProcs, g \in Games :
        /\ Completed(p) /\ ~loc[p].state0[g].is_frozen
        /\ state[g].is_frozen /\ state[g].freeze_reason = "inactive_timeout"

\* C15: not_loaded_yet exemption - a game whose fetch status is
\* not_loaded_yet keeps its streak (0 for a first-seen game) and is not
\* frozen by that cycle, whatever its stored streak and the elapsed time.
C15_NotLoadedExempt ==
    \A p \in AllProcs :
        Completed(p) =>
            \A i \in 1..Len(loc[p].metrics) :
                LET m == loc[p].metrics[i]
                    old == loc[p].state0[m.game_id]
                    new == state[m.game_id]
                IN  m.status = "not_loaded_yet"
                        => /\ new.no_new_pbp_streak = old.no_new_pbp_streak
                           /\ new.is_frozen = old.is_frozen

\* a game with streak >= 2 and an advance at least the threshold old was
\* fetched as not_loaded_yet by the cycle that ended
C15_Witness ==
    \E p \in AllProcs, g \in Games :
        /\ Completed(p) /\ loc[p].metrics = <<[game_id |-> g, status |-> "not_loaded_yet",
                pbp_rows |-> 0, max_play_id |-> Null, is_final |-> FALSE]>>
        /\ loc[p].state0[g].exists /\ ~loc[p].state0[g].is_frozen
        /\ loc[p].state0[g].no_new_pbp_streak >= 2
        /\ loc[p].state0[g].last_new_pbp_at # Null
        /\ now - loc[p].state0[g].last_new_pbp_at >= InactiveSeconds

\* C16 as stated: a fetch error never freezes - a game whose fetch status is
\* error and that was not frozen when the cycle started is not frozen when
\* it ends.
C16_ErrorNeverFreezes ==
    \A p \in AllProcs :
        Completed(p) =>
            \A i \in 1..Len(loc[p].metrics) :
                LET m == loc[p].metrics[i]
                IN  (m.status = "error" /\ ~loc[p].state0[m.game_id].is_frozen)
                        => ~state[m.game_id].is_frozen

\* C16 as amended: a fetch error freezes nothing by itself - a game whose
\* fetch status is error is frozen in that cycle only by the inactivity rule:
\* reason "inactive_timeout", its post-update streak >= 2, its last advance
\* unchanged and at least the inactivity threshold old.
C16_ErrorFreezesOnlyByInactivity ==
    \A p \in AllProcs :
        Completed(p) =>
            \A i \in 1..Len(loc[p].metrics) :
                LET m == loc[p].metrics[i]
                    old == loc[p].state0[m.game_id]
                    new == state[m.game_id]
                IN  (m.status = "error" /\ ~old.is_frozen /\ new.is_frozen)
                        => /\ new.freeze_reason = "inactive_timeout"
                           /\ new.no_new_pbp_streak >= 2
                           /\ old.last_new_pbp_at # Null
                           /\ new.last_new_pbp_at = old.last_new_pbp_at
                           /\ now - new.last_new_pbp_at >= InactiveSeconds

\* a cycle whose fetch of an active game failed has ended with the game frozen
C16_Witness ==
    \E p \in AllProcs, g \in Games :
        /\ Completed(p) /\ Len(loc[p].metrics) = 1
        /\ loc[p].metrics[1].game_id = g /\ loc[p].metrics[1].status = "error"
        /\ ~loc[p].state0[g].is_frozen /\ state[g].is_frozen

\* the rows of a cumulative file that belong to game g, in file order
GameRows(c, g) == SelectSeq(c.rows, LAMBDA r : r.game_id = g)

\* C17: a fetch error does not touch that game's cumulative data - after a
\* cycle in which the fetch status of game g is error, the cumulative rows
\* with game_id = g are the ones the table held when the cycle started.
C17_ErrorLeavesGameRows ==
    \A p \in AllProcs :
        Completed(p) =>
            \A i \in 1..Len(loc[p].metrics) :
                LET m == loc[p].metrics[i]
                IN  m.status = "error" => GameRows(cum, m.game_id) = GameRows(loc[p].cum0, m.game_id)

\* the fetched max_play_id of m is past the one stored in row r (a row
\* without a stored value is below every play id)
Advanced(r, m) ==
    m.max_play_id # Null /\ (r.last_max_play_id = Null \/ m.max_play_id > r.last_max_play_id)

\* C18: advance detection - for a fetched game whose status is not
\* not_loaded_yet: if the fetched max_play_id is non-null and past the stored
\* one, then after the cycle the streak is 0, last_new_pbp_at is the cycle
\* time and last_max_play_id the fetched value; otherwise the streak is the
\* stored one plus 1 and last_max_play_id and last_new_pbp_at are unchanged.
C18_AdvanceDetection ==
    \A p \in AllProcs :
        Completed(p) =>
            \A i \in 1..Len(loc[p].metrics) :
                LET m == loc[p].metrics[i]
                    old == loc[p].state0[m.game_id]
                    new == state[m.game_id]
                IN  m.status # "not_loaded_yet" =>
                        IF Advanced(old, m)
                        THEN /\ new.no_new_pbp_streak = 0
                             /\ new.last_new_pbp_at = loc[p].tnow
                             /\ new.last_max_play_id = m.max_play_id
                        ELSE /\ new.no_new_pbp_streak = old.no_new_pbp_streak + 1
                             /\ new.last_max_play_id = old.last_max_play_id
                             /\ new.last_new_pbp_at = old.last_new_pbp_at

\* C19: Result.changed is true exactly when the cycle ran to its end and
\* the fetched max_play_id of some fetched game is past the value stored for
\* it when the cycle started; it is false in short-circuited and failed
\* cycles.
C19_ChangedIffAdvanced ==
    \A p \in AllProcs :
        (pc[p] = "done" /\ loc[p].res.ret = "result") =>
            (loc[p].res.changed <=>
                /\ loc[p].res.msg = "complete"
                /\ \E i \in 1..Len(loc[p].metrics) :
                        Advanced(loc[p].state0[loc[p].metrics[i].game_id], loc[p].metrics[i]))

\* a cycle has reported changed for a game whose stored max_play_id was 1
C19_Witness ==
    \E p \in AllProcs, g \in Games :
        /\ Completed(p) /\ loc[p].res.changed
        /\ loc[p].state0[g].last_max_play_id = 1 /\ state[g].last_max_play_id = 2

\* C20: eligibility - the ids passed to the fetcher are exactly the requested
\* ids whose state row is not frozen (ids without a row included), and no
\* game that is frozen is being fetched.
C20_Eligibility ==
    \A p \in AllProcs :
        /\ (loc[p].acquired /\ pc[p] # "read_state") =>
            /\ \A g \in Games :
                (\E i \in 1..Len(loc[p].to_refresh) : loc[p].to_refresh[i] = g)
                    <=> /\ \E i \in 1..Len(loc[p].req) : loc[p].req[i] = g
                        /\ ~loc[p].state0[g].is_frozen
            /\ Len(loc[p].to_refresh) <= Len(loc[p].req)
        /\ Fetching(p) =>
            \A i \in 1..Len(loc[p].to_refresh) : ~state[loc[p].to_refresh[i]].is_frozen

\* both games are requested, g1 is frozen, and g2 alone is being fetched
C20_Witness ==
    \E p \in AllProcs :
        /\ pc[p] = "fetch" /\ loc[p].req = <<"g1", "g2">> /\ loc[p].to_refresh = <<"g2">>
        /\ state["g1"].is_frozen

\* the requested list is empty, or every requested id was frozen when the
\* call started
NothingToRefresh(p) ==
    \A i \in 1..Len(loc[p].req) :
        loc[p].state0[loc[p].req[i]].exists /\ loc[p].state0[loc[p].req[i]].is_frozen

\* C21: when the requested id list is empty or every requested id is frozen,
\* the cycle performs no fetch, no merge and no write to the cumulative or the
\* state store, and a result it returns has ok = true and eligible = 0.
C21_ShortCircuitNoEffects ==
    \A p \in env.procs :
        (pc[p] # "idle" /\ NothingToRefresh(p)) =>
            /\ ~Fetching(p)
            /\ loc[p].tnow = Null /\ loc[p].metrics = <<>> /\ loc[p].batch = "none"
            /\ cum = loc[p].cum0 /\ state = loc[p].state0
            /\ (pc[p] = "done" /\ loc[p].res.ret = "result") =>
                    (loc[p].res.ok /\ loc[p].res.eligible_games = 0
                     /\ loc[p].res.games_refreshed = 0)

\* a cycle for a frozen game has returned
C21_Witness ==
    \E p \in env.procs :
        /\ pc[p] = "done" /\ loc[p].req = <<"g1">> /\ NothingToRefresh(p)
        /\ loc[p].res.ret = "result"

\* C22: a cycle with an empty requested list, like one with an all-frozen
\* selection, acquires and releases the refresh lock: a call that returned a
\* result created the marker on its way.
C22_ShortCircuitTakesLock ==
    \A p \in env.procs :
        (pc[p] = "done" /\ loc[p].res.ret = "result") => loc[p].acquired

C24_OncePerGamePerCycle ==
    \A p \in env.procs :
        Completed(p) =>
            \A g \in Games :
                state[g].no_new_pbp_streak <= loc[p].state0[g].no_new_pbp_streak + 1

Scoped == ApplyScope(s_plays, s_scope)

PlayEvents(p) ==
    SelectSeq(s_events, LAMBDA e : e.game_id = p.game_id /\ e.play_id = p.play_id)

\* the rows of the totals with key (team, position)
TotalsRows(team, position) ==
    {k \in 1..Len(s_totals) : s_totals[k].team = team /\ s_totals[k].position = position}

\* the pts of the feed's first n events that carry key (team, position), added up
RECURSIVE FeedSum(_, _, _)
FeedSum(team, position, n) ==
    IF n = 0 THEN 0
    ELSE FeedSum(team, position, n - 1)
         + (IF s_events[n].team = team /\ s_events[n].position = position
            THEN s_events[n].pts ELSE 0)

\* exactly one totals row has the key of event i, and its pts is the sum of
\* the events with that key
TiesOut(i) ==
    LET rows == TotalsRows(s_events[i].team, s_events[i].position)
    IN  /\ Cardinality(rows) = 1
        /\ \A k \in rows :
              s_totals[k].pts = FeedSum(s_events[i].team, s_events[i].position, Len(s_events))

\* a totals row without an event has pts = 0
ZeroFilled ==
    \A k \in 1..Len(s_totals) :
        (\A i \in 1..Len(s_events) :
            ~(s_events[i].team = s_totals[k].team /\ s_events[i].position = s_totals[k].position))
        => s_totals[k].pts = 0

\* C26 as stated: for every (team, category) key that occurs in the event
\* feed, the sum of the events' pts for that key equals the pts of the row
\* with that key in the totals; every totals row with no event has pts = 0.
C26_TieOut ==
    (s_step = 2) => ((\A i \in 1..Len(s_events) : TiesOut(i)) /\ ZeroFilled)

\* C26: tie-out for the keys that name a team - for every (team, category)
\* key of the event feed whose team is not missing, the sum of the events'
\* pts for that key equals the pts of the one row with that key in the totals;
\* every totals row with no event has pts = 0, and no totals row has a
\* missing team.
C26_TieOutNamedTeams ==
    (s_step = 2) =>
        /\ \A i \in 1..Len(s_events) : s_events[i].team # "" => TiesOut(i)
        /\ ZeroFilled
        /\ \A k \in 1..Len(s_totals) : s_totals[k].team # ""

\* two field goals of KC add up to 6 in the row (KC, K)
C26_Witness ==
    /\ s_step = 2
    /\ Cardinality({i \in 1..Len(s_events) :
            s_events[i].team = "KC" /\ s_events[i].position = "K"}) = 2
    /\ \E k \in 1..Len(s_totals) :
          s_totals[k].team = "KC" /\ s_totals[k].position = "K" /\ s_totals[k].pts = 6

\* the play carries the flags of an offensive pass touchdown and no other
PassTdOnly(p) ==
    /\ p.is_td_off /\ p.pass_touchdown /\ ~p.rush_touchdown
    /\ ~p.is_fg /\ ~p.is_xp /\ ~p.is_2pt /\ ~p.is_def_two_pt /\ ~p.is_safety

\* the categories the lookup table holds for a participant id
LookupCategories(id) ==
    IF \E j \in 1..Len(s_rosters) : s_rosters[j].player_id = id
    THEN {NormalizePosition(s_rosters[j].position_bucket) :
            j \in {k \in 1..Len(s_rosters) : s_rosters[k].player_id = id}}
    ELSE {"OTH"}

IsPasserEvent(e, p) == e.team = p.posteam /\ e.position = "QB" /\ e.pts = 4

IsReceiverEvent(e, p) ==
    e.team = p.posteam /\ e.pts = 6 /\ e.position \in LookupCategories(p.receiver_player_id)

\* C27: a play flagged as an offensive pass touchdown with both passer and
\* receiver ids yields exactly two events (+4 to the possession team in QB, +6
\* to the possession team in the receiver's looked-up category); with the
\* passer id absent only the +6 event, with the receiver id absent only the +4
\* event.
C27_DoubleAttribution ==
    (s_step = 2) =>
        \A i \in 1..Len(Scoped) :
            LET p == Scoped[i]
                ev == PlayEvents(p)
            IN  PassTdOnly(p) =>
                  /\ (p.passer_player_id # "" /\ p.receiver_player_id # "") =>
                        /\ Len(ev) = 2
                        /\ \E a, b \in 1..Len(ev) :
                              a # b /\ IsPasserEvent(ev[a], p) /\ IsReceiverEvent(ev[b], p)
                  /\ (p.passer_player_id = "" /\ p.receiver_player_id # "") =>
                        (Len(ev) = 1 /\ IsReceiverEvent(ev[1], p))
                  /\ (p.passer_player_id # "" /\ p.receiver_player_id = "") =>
                        (Len(ev) = 1 /\ IsPasserEvent(ev[1], p))

\* C28: for every combination of scoring flags and participant ids that a
\* stored scoring play can carry, the engine emits zero, one or two events for
\* that play.
C28_AtMostTwoEvents ==
    (s_step = 2) => \A i \in 1..Len(Scoped) : Len(PlayEvents(Scoped[i])) <= 2

\* the events of play p with the given reason
Because(p, reason) == SelectSeq(PlayEvents(p), LAMBDA e : e.reason = reason)

\* exactly one event of that reason, worth pts, for the defending team in OTH
DefensiveCredit(p, reason, pts) ==
    /\ Len(Because(p, reason)) = 1
    /\ Because(p, reason)[1].team = p.defteam
    /\ Because(p, reason)[1].position = "OTH"
    /\ Because(p, reason)[1].pts = pts

\* C29: a defense/other touchdown yields +6, a safety +2 and a defensive
\* two-point return +2, each credited to the play's defending team in OTH and
\* never to the possession team; a play flagged as a defensive two-point return
\* yields no offensive two-point event.
C29_DefensiveToDefteam ==
    (s_step = 2) =>
        \A i \in 1..Len(Scoped) :
            LET p == Scoped[i]
            IN  /\ p.is_td_def => DefensiveCredit(p, "Defensive TD", 6)
                /\ p.is_safety => DefensiveCredit(p, "Safety", 2)
                /\ p.is_def_two_pt => DefensiveCredit(p, "Defensive 2pt", 2)
                /\ \A j \in 1..Len(PlayEvents(p)) :
                      (PlayEvents(p)[j].position = "OTH"
                         /\ PlayEvents(p)[j].reason \in {"Defensive TD", "Safety", "Defensive 2pt"})
                      => (PlayEvents(p)[j].team = p.defteam
                          /\ (p.posteam # p.defteam => PlayEvents(p)[j].team # p.posteam))
                /\ p.is_def_two_pt =>
                      \A j \in 1..Len(PlayEvents(p)) :
                          PlayEvents(p)[j].reason \notin
                              {"2pt pass (QB)", "2pt pass (receiver)", "2pt rush"}

\* a play flagged both as a two-point try and as a defensive return, with
\* passer and receiver, gave the defending team its two points
C29_Witness ==
    /\ s_step = 2
    /\ \E i \in 1..Len(Scoped) :
          /\ Scoped[i].is_def_two_pt /\ Scoped[i].is_2pt
          /\ Scoped[i].passer_player_id # "" /\ Scoped[i].receiver_player_id # ""
          /\ Scoped[i].is_td_def /\ Scoped[i].is_safety
          /\ Len(PlayEvents(Scoped[i])) = 3
          /\ \A j \in 1..3 : PlayEvents(Scoped[i])[j].team = "SF"

\* the teams named by the plays of the scope
ObservedTeams ==
    {Scoped[i].posteam : i \in 1..Len(Scoped)} \cup {Scoped[i].defteam : i \in 1..Len(Scoped)}

\* the teams credited with an event
EventTeams == {s_events[i].team : i \in 1..Len(s_events)}

\* team t has exactly one row for each category, zero where it has no scoring
FullGrid(t) ==
    \A c \in {POSITION_BUCKETS[j] : j \in 1..Len(POSITION_BUCKETS)} :
        /\ Cardinality(TotalsRows(t, c)) = 1
        /\ \A k \in TotalsRows(t, c) : s_totals[k].pts = FeedSum(t, c, Len(s_events))

\* C30 as stated: every team observed in the scoped plays has exactly one row
\* for each of the six categories, with pts = 0 where it has no scoring.
C30_GridForObservedTeams ==
    (s_step = 2) => \A t \in ObservedTeams \ {""} : FullGrid(t)

\* C30: in the totals returned for a scope, every team credited with at least
\* one event has exactly one row for each of the six categories QB, RB, WR, TE,
\* K, OTH, with pts = 0 for the categories in which it has no scoring; a team
\* without an event has no row.
C30_GridForScoringTeams ==
    (s_step = 2) =>
        /\ \A t \in EventTeams \ {""} : FullGrid(t)
        /\ \A k \in 1..Len(s_totals) : s_totals[k].team \in EventTeams \ {""}

\* KC scored a field goal only: six rows, five of them zero; SF, the other
\* team of the play, has none
C30_Witness ==
    /\ s_step = 2
    /\ EventTeams = {"KC"} /\ "SF" \in ObservedTeams
    /\ Len(s_totals) = 6
    /\ \E k \in 1..6 : s_totals[k].position = "K" /\ s_totals[k].pts = 3
    /\ \E k \in 1..6 : s_totals[k].position = "QB" /\ s_totals[k].pts = 0

\* the scoring predicate of a raw row, from its indicators
RawScoring(r) ==
    \/ r.touchdown = "1"
    \/ r.field_goal_result = "made"
    \/ r.extra_point_result \in {"good", "made"}
    \/ r.two_point_conv_result \in {"success", "good"}
    \/ r.safety = "1"
    \/ r.defensive_two_point_conv = "1"

\* C31: derive_scoring_plays outputs exactly the input rows for which is_td OR
\* is_fg OR is_xp OR is_2pt_offense OR is_safety OR is_2pt_defense holds, in
\* their order; every output record has at least one of these flags true and no
\* scoring row is dropped.
C31_DerivationFilter ==
    (d_step >= 1 /\ d_pbp # <<>>) =>
        LET want == SelectSeq(d_pbp, RawScoring)
        IN  /\ Len(d_out) = Len(want)
            /\ \A i \in 1..Len(want) :
                  /\ d_out[i].game_id = want[i].game_id /\ d_out[i].play_id = want[i].play_id
                  /\ \/ d_out[i].is_td \/ d_out[i].is_fg \/ d_out[i].is_xp
                     \/ d_out[i].is_2pt \/ d_out[i].is_safety \/ d_out[i].is_def_two_pt

\* of two rows the first, whose touchdown indicator does not parse, was
\* dropped and the second, a defensive two-point return, was kept
C31_Witness ==
    /\ d_step >= 1 /\ Len(d_pbp) = 2 /\ Len(d_out) = 1
    /\ d_pbp[1].touchdown = "x" /\ d_out[1].play_id = 2
    /\ d_out[1].is_def_two_pt /\ ~d_out[1].is_td /\ ~d_out[1].is_fg

\* C32: the refreshed_at stamp on every derived record is the externally
\* supplied one and is never generated inside the derivation; two runs on the
\* same raw input with the same cfg, at different wall-clock times, produce
\* identical output.
C32_DeterministicDerivation ==
    (d_step = 2) =>
        /\ d_out = d_out2
        /\ \A i \in 1..Len(d_out) : d_out[i].refreshed_at = d_cfg


\* the game ids in a metrics list
FetchedIds(ms) == {ms[i].game_id : i \in 1..Len(ms)}

C34_FrozenNowCount ==
    \A p \in AllProcs :
        (pc[p] = "done" /\ loc[p].res.msg \in {"complete", "nothing_to_refresh"}) =>
            /\ loc[p].res.games_frozen =
                  Cardinality({g \in Games : ~loc[p].state0[g].is_frozen /\ state[g].is_frozen})
            /\ loc[p].res.games_frozen <= loc[p].res.eligible_games


\* C37: first observation counts as an advance - in the cycle that creates
\* the state row of a game whose fetch (status ok, not final) reports a
\* max_play_id, the streak after the cycle is 0 and the result says changed.
C37_FirstObservationAdvances ==
    \A p \in AllProcs :
        Completed(p) =>
            \A i \in 1..Len(loc[p].metrics) :
                LET m == loc[p].metrics[i]
                IN  (/\ ~loc[p].state0[m.game_id].exists
                     /\ m.status = "ok" /\ ~m.is_final /\ m.max_play_id # Null)
                        => /\ state[m.game_id].no_new_pbp_streak = 0
                           /\ loc[p].res.changed


\* C38: last_max_play_id of a state row never decreases and never goes from
\* a value to null, in any step of any cycle.
C38_MaxMonotone ==
    [][\A g \in Games :
          (state[g].exists /\ state[g].last_max_play_id # Null) =>
              /\ state'[g].last_max_play_id # Null
              /\ state'[g].last_max_play_id >= state[g].last_max_play_id]_vars

\* a cycle whose fetch reported less than the stored value, or nothing, has
\* ended and the stored value is still 2
C38_Witness ==
    \E p \in AllProcs :
        /\ Completed(p) /\ Len(loc[p].metrics) = 1
        /\ loc[p].metrics[1].game_id = "g1"
        /\ loc[p].metrics[1].max_play_id \in {Null, 1}
        /\ loc[p].state0["g1"].last_max_play_id = 2
        /\ state["g1"].last_max_play_id = 2


\* C39: the cumulative store never loses a play across successful cycles -
\* the (game_id, play_id) keys of scoring_plays.csv after a cycle that ran to
\* completion include every key the file held when the cycle started.
C39_NoPlayLost ==
    \A p \in AllProcs :
        Completed(p) => KeySet(loc[p].cum0.rows) \subseteq KeySet(cum.rows)

\* a cycle that started with a table holding play 2 only, derived play 1
\* and merged it, has ended with both
C39_Witness ==
    \E p \in AllProcs :
        /\ Completed(p) /\ loc[p].batch = "rows"
        /\ KeySet(loc[p].cum0.rows) = {<<"g1", 2>>}
        /\ KeySet(cum.rows) = {<<"g1", 1>>, <<"g1", 2>>}


\* C36: owner-only release - release() of a cycle never removes a marker
\* that another cycle created; when the marker of a running cycle was
\* reclaimed as stale, its release leaves the reclaimer's marker in place.
C36_OwnerOnlyRelease ==
    [][\A p \in AllProcs :
          (pc[p] = "release" /\ pc'[p] = "done" /\ marker.owner \notin {p, "none"})
              => marker' = marker]_vars


\* the number of events of play (g, n) in feed ev with the given team and pts
EventsOf(ev, g, n, team, pts) ==
    Cardinality({i \in 1..Len(ev) : /\ ev[i].game_id = g /\ ev[i].play_id = n
                                     /\ ev[i].team = team /\ ev[i].pts = pts})

\* C40: the lookup table changes categories only - for every play the number
\* of events and each event's team and pts are what they are with any other
\* lookup table (here: the empty one), a table with several rows for one
\* player id included.
C40_LookupChangesCategoryOnly ==
    (s_step = 2) =>
        LET ref == ScoreEvents(s_plays, <<>>, s_scope)
        IN  \A k \in 1..Len(s_plays), team \in {"KC", "SF", ""}, pts \in 1..6 :
                EventsOf(s_events, s_plays[k].game_id, s_plays[k].play_id, team, pts)
                    = EventsOf(ref, s_plays[k].game_id, s_plays[k].play_id, team, pts)


\* the time from which the inactivity of a row is measured: its last
\* advance, or the time it was first seen when it never advanced
InactiveSince(r) == IF r.last_new_pbp_at # Null THEN r.last_new_pbp_at ELSE r.first_seen_at

\* C35: polling eventually stops for an inactive game - an active game that
\* is fetched with status ok or error, not final and without advance, is
\* frozen with reason "inactive_timeout" by the cycle after which its streak
\* is at least 2 and the inactivity threshold has elapsed, also when it never
\* reported a max_play_id (last_new_pbp_at null).
C35_InactiveEventuallyFrozen ==
    \A p \in AllProcs :
        Completed(p) =>
            \A i \in 1..Len(loc[p].metrics) :
                LET m == loc[p].metrics[i]
                    old == loc[p].state0[m.game_id]
                    new == state[m.game_id]
                IN  (/\ old.exists /\ ~old.is_frozen
                     /\ m.status \in {"ok", "error"} /\ ~m.is_final /\ ~Advanced(old, m)
                     /\ new.no_new_pbp_streak >= 2
                     /\ now - InactiveSince(new) >= InactiveSeconds)
                        => /\ new.is_frozen
                           /\ new.freeze_reason = "inactive_timeout"

====
